---- MODULE Spec2Model ----
(***************************************************************************)
(* A model of zip-dir-analyzer: the task-graph scheduler of                *)
(* ZipDirAnalyzer::run / walk_dir (src/src/main.rs), the line matcher of   *)
(* grep_file / process_file (src/src/main.rs, src/src/regex_processor.rs), *)
(* the SharedIterator (src/src/shared_iterator.rs) and the tree walker     *)
(* walk_path / walk_zip / search_file / report (src/src/main.rs).          *)
(***************************************************************************)
EXTENDS Integers, Sequences, FiniteSets, TLC

(***************************************************************************)
(* Bounds of the model.                                                    *)
(***************************************************************************)
\* filesystem entries of the scanned forest
NumNodes == 3
\* worker threads of the pool (Args::parallel)
NumWorkers == 2
\* entries of the forest that fail to open or to be read
MaxFaults == 1
\* lines of a scanned file
MaxLines == 4
\* largest Args::max_errors tried
MaxErrorsArg == 1
\* largest after-context count tried
MaxAfter == 2
\* length of the sequence under a SharedIterator
MaxItems == 4
\* handles made of one SharedIterator (new and its clones)
MaxHandles == 3
\* next() calls made on the handles of one SharedIterator
MaxCalls == 6
\* entries of an archive
MaxEntries == 2
\* matching lines of a file the tree walker is given
MaxMatches == 2
\* capture groups of the pattern beyond group 0
MaxGroups == 2
\* length of the capture-group selection list
MaxSelect == 2

VARIABLES
    \* ---- the scanned forest (input, fixed during a run)
    parent,         \* parent[n]: the directory holding entry n, 0 for a root
    kind,           \* kind[n]: "dir" or "file"
    fault,          \* fault[n]: "none", "open" (read_dir / File::open of n fails),
                    \*           "entry" (reading the entry n of its directory fails)
    stdinMode,      \* Args::directory == "-": the roots are read from stdin
    \* ---- ZipDirAnalyzer
    ops_scheduled,  \* AtomicU64
    ops_complete,   \* AtomicU64
    pool,           \* the executor's job queue: units submitted, not yet started
    \* ---- threads: 0 is the main thread, 1..NumWorkers the pool's workers
    tpc,            \* position of each thread
    tnode,          \* the path a thread's walk_path / walk_dir is working on
    tchild,         \* the entry walk_dir's loop is at
    tres,           \* the Result of the unit's walk_path: "ok" or "err"
    \* ---- ZipDirAnalyzer::run
    mainpc,         \* position of run
    rootn,          \* the root run is at
    scheduled,      \* run's local
    complete,       \* run's local
    \* ---- history
    runs,           \* runs[n]: how often a unit for n was started
    completions,    \* completions[n]: ops_complete increments made by n's unit
    \* ---- process_file (the line matcher) on one file
    fileLines,      \* the file: per line "match", "plain" (decoded lines) or "bad"
    max_errors,     \* Args::max_errors
    after,          \* the after-context count
    earlyExit,      \* what report returns in the configured output mode
    lines,          \* the SharedIterator over the file's lines, with its handles
    consecutive_error_count,
    scanpc,         \* "scan", "report", or how process_file ended
    ctxLeft,        \* context lines report still pulls
    reads,          \* history: <<line, reader>> for every line an iterator gave out
    reported,       \* history: the lines handed to report as matches
    counted,        \* ops_complete increments made by the closure that scans the file
    \* ---- a SharedIterator and its clones (tests::basic)
    items,          \* the underlying sequence
    shared,         \* the SharedIterator state
    returned,       \* history: <<handle, item>> per next() call, item 0 for None
    \* ---- walk_path on one path: walk_zip, search_file, grep_file, report
    args,           \* Args: the flags and the zip delimiter
    unit,           \* the path walk_path is called on, and what is found there
    walkpc,         \* "start", "zip" (walk_zip's loop), "done" (Ok) or "err"
    zipIdx,         \* walk_zip's i
    out,            \* the records written to stdout
    diag,           \* the diagnostics written to stderr
    engineCalls,    \* history: the paths grep_file was called on
    \* ---- process_file in capture mode, on one line
    caps,           \* regex.captures(&line): <<>> for None, else the groups 0..n
    capture_groups, \* Args::capture_groups: the selected group numbers
    capValue,       \* the text handed to report in place of the line
    cappc           \* "line", then "reported" or "no_match"

schedVars == <<parent, kind, fault, stdinMode, ops_scheduled, ops_complete, pool,
               tpc, tnode, tchild, tres, mainpc, rootn, scheduled, complete,
               runs, completions>>
scanVars == <<fileLines, max_errors, after, earlyExit, lines,
              consecutive_error_count, scanpc, ctxLeft, reads, reported,
              counted>>
iterVars == <<items, shared, returned>>
walkVars == <<args, unit, walkpc, zipIdx, out, diag, engineCalls>>
capVars == <<caps, capture_groups, capValue, cappc>>
notSched == <<scanVars, iterVars, walkVars, capVars>>
notScan == <<schedVars, iterVars, walkVars, capVars>>
notIter == <<schedVars, scanVars, walkVars, capVars>>
notWalk == <<schedVars, scanVars, iterVars, capVars>>
notCap == <<schedVars, scanVars, iterVars, walkVars>>
vars == <<schedVars, scanVars, iterVars, walkVars, capVars>>

Nodes == 1..NumNodes
Workers == 1..NumWorkers
MainThread == 0
Threads == {MainThread} \cup Workers

Min(S) == CHOOSE x \in S : \A y \in S : x <= y

\* the entries of directory d (0: the list of roots) that follow entry `prev`,
\* in the order read_dir (or stdin) yields them
EntriesAfter(d, prev) == {c \in Nodes : parent[c] = d /\ c > prev}

\* the next entry of d after `prev`, 0 when the iterator is exhausted
NextEntry(d, prev) ==
    IF EntriesAfter(d, prev) = {} THEN 0 ELSE Min(EntriesAfter(d, prev))

\* the forests a run is given: entries are numbered in enumeration order
Forests == {p \in [Nodes -> 0..NumNodes] : \A n \in Nodes : p[n] < n}

(***************************************************************************)
(* SharedIterator (src/src/shared_iterator.rs)                             *)
(*                                                                         *)
(* iter: Rc<RefCell<&mut dyn Iterator>>. A state is [cell, ref]: cell[c]   *)
(* is how many items the iterator behind RefCell c has given out, ref[h]   *)
(* the RefCell that handle h's Rc points to.                               *)
(***************************************************************************)
\* Option::None
None == 0

\* SharedIterator::new(iter): one Rc to a new RefCell around the iterator
SharedIterator_new == [cell |-> <<0>>, ref |-> <<1>>]

\* a clone that copies the iterator's position into a RefCell of its own
SharedIterator_clone_fork(si, h) ==
    [cell |-> Append(si.cell, si.cell[si.ref[h]]),
     ref |-> Append(si.ref, Len(si.cell) + 1)]

\* Clone for SharedIterator: Self { iter: self.iter.clone() }, the Rc is
\* cloned and the new handle points to the same RefCell
SharedIterator_clone(si, h) ==
    [cell |-> si.cell, ref |-> Append(si.ref, si.ref[h])]

\* the handle made last goes out of scope
SharedIterator_drop(si) ==
    [cell |-> si.cell, ref |-> SubSeq(si.ref, 1, Len(si.ref) - 1)]

\* Iterator::next, the item: self.iter.borrow_mut().next() on a sequence of n
\* items gives the place of the next item, None past the end
SharedIterator_next(si, h, n) ==
    IF si.cell[si.ref[h]] < n THEN si.cell[si.ref[h]] + 1 ELSE None

\* a next() that advances a copy of the iterator and leaves the shared one
SharedIterator_advance_copy(si, h, n) == si

\* Iterator::next, the effect: the iterator behind the RefCell has advanced
SharedIterator_advance(si, h, n) ==
    [si EXCEPT !.cell[si.ref[h]] = IF @ < n THEN @ + 1 ELSE @]

\* the other parts of the model at rest
SchedIdle ==
    /\ parent = <<>> /\ kind = <<>> /\ fault = <<>> /\ stdinMode = FALSE
    /\ ops_scheduled = 0 /\ ops_complete = 0 /\ pool = <<>>
    /\ tpc = <<>> /\ tnode = <<>> /\ tchild = <<>> /\ tres = <<>>
    /\ mainpc = "none" /\ rootn = 0 /\ scheduled = 0 /\ complete = 0
    /\ runs = <<>> /\ completions = <<>>

ScanIdle ==
    /\ fileLines = <<>> /\ max_errors = 0 /\ after = 0 /\ earlyExit = FALSE
    /\ lines = SharedIterator_new /\ consecutive_error_count = 0
    /\ scanpc = "none" /\ ctxLeft = 0 /\ reads = <<>> /\ reported = <<>>
    /\ counted = 0

IterIdle ==
    /\ items = <<>> /\ shared = SharedIterator_new /\ returned = <<>>

WalkIdle ==
    /\ args = <<>> /\ unit = <<>> /\ walkpc = "none" /\ zipIdx = 0
    /\ out = <<>> /\ diag = <<>> /\ engineCalls = <<>>

CapIdle ==
    /\ caps = <<>> /\ capture_groups = <<>> /\ capValue = <<>> /\ cappc = "none"

\* the sequences over S of length at most n
SeqsUpTo(S, n) == UNION {[1..k -> S] : k \in 0..n}

(***************************************************************************)
(* A SharedIterator used through several handles, as in tests::basic: the   *)
(* underlying sequence is [1, 2, .., n].iter()                             *)
(***************************************************************************)
IterInit ==
    /\ items \in {[i \in 1..n |-> i] : n \in 0..MaxItems}
    /\ shared = SharedIterator_new
    /\ returned = <<>>
    /\ SchedIdle /\ ScanIdle /\ WalkIdle /\ CapIdle

\* let shared2 = shared1.clone()
IterClone(h) ==
    /\ Len(shared.ref) < MaxHandles
    /\ shared' = SharedIterator_clone(shared, h)
    /\ UNCHANGED <<items, returned>>
    /\ UNCHANGED notIter

\* shared1.next()
IterNextCall(h) ==
    /\ Len(returned) < MaxCalls
    /\ LET place == SharedIterator_next(shared, h, Len(items)) IN
        returned' = Append(returned,
                           <<h, IF place = None THEN None ELSE items[place]>>)
    /\ shared' = SharedIterator_advance(shared, h, Len(items))
    /\ UNCHANGED items
    /\ UNCHANGED notIter

IterNext ==
    \/ \E h \in 1..Len(shared.ref) : IterClone(h)
    \/ \E h \in 1..Len(shared.ref) : IterNextCall(h)

IterSpec == IterInit /\ [][IterNext]_vars

(***************************************************************************)
(* The line matcher: process_file (src/src/regex_processor.rs), whose      *)
(* error budget is that of grep_file (src/src/main.rs)                     *)
(***************************************************************************)
\* the handles of process_file: `lines`, the clone the for loop iterates, and
\* the clone made at a match for the lines that follow it
LinesHandle == 1
PrimaryHandle == 2
ContextHandle == 3

\* how many lines report takes from all_lines after the matched one: up to the
\* after-context count in a mode that prints the record, none in a mode that
\* prints the path alone
ReportContextLines == IF earlyExit THEN 0 ELSE after

\* let lines = SharedIterator::new(&mut lines); for line_result in lines.clone()
ScanInit ==
    /\ fileLines \in SeqsUpTo({"match", "plain", "bad"}, MaxLines)
    /\ max_errors \in 0..MaxErrorsArg
    /\ after \in 0..MaxAfter
    /\ earlyExit \in BOOLEAN
    /\ lines = SharedIterator_clone(SharedIterator_new, LinesHandle)
    /\ consecutive_error_count = 0
    /\ scanpc = "scan"
    /\ ctxLeft = 0
    /\ reads = <<>>
    /\ reported = <<>>
    /\ counted = 0
    /\ SchedIdle /\ IterIdle /\ WalkIdle /\ CapIdle

\* the error budget's test: if consecutive_error_count > self.args.max_errors
BudgetExceeded(count, max) == count > max

\* one turn of the for loop up to the call of report: the loop's handle gives
\* the next line; Err: the budget; Ok: regex.is_match / regex.captures, and at a
\* match lines.clone() and the call of report
ScanLine ==
    /\ scanpc = "scan"
    /\ LET i == SharedIterator_next(lines, PrimaryHandle, Len(fileLines))
           advanced == SharedIterator_advance(lines, PrimaryHandle, Len(fileLines))
       IN
        IF i = None
        THEN /\ scanpc' = "eof"
             /\ lines' = advanced
             /\ UNCHANGED <<consecutive_error_count, ctxLeft, reads, reported>>
        ELSE /\ reads' = Append(reads, <<i, "primary">>)
             /\ IF fileLines[i] = "bad"
                  THEN /\ lines' = advanced
                       /\ IF BudgetExceeded(consecutive_error_count, max_errors)
                            THEN /\ scanpc' = "aborted"
                                 /\ UNCHANGED consecutive_error_count
                            ELSE /\ consecutive_error_count' = consecutive_error_count + 1
                                 /\ UNCHANGED scanpc
                       /\ UNCHANGED <<ctxLeft, reported>>
                  ELSE IF fileLines[i] = "match"
                  THEN /\ lines' = SharedIterator_clone(advanced, LinesHandle)
                       /\ reported' = Append(reported, i)
                       /\ ctxLeft' = ReportContextLines
                       /\ scanpc' = "report"
                       /\ UNCHANGED consecutive_error_count
                  ELSE /\ lines' = advanced
                       /\ consecutive_error_count' = 0
                       /\ UNCHANGED <<scanpc, ctxLeft, reported>>
    /\ UNCHANGED <<fileLines, max_errors, after, earlyExit, counted>>
    /\ UNCHANGED notScan

\* report takes one more line of all_lines: more_lines is
\* lines.clone().map(|r| r.unwrap()), so a line that failed to decode panics
ReportPull ==
    /\ scanpc = "report"
    /\ ctxLeft > 0
    /\ LET i == SharedIterator_next(lines, ContextHandle, Len(fileLines)) IN
        /\ lines' = SharedIterator_advance(lines, ContextHandle, Len(fileLines))
        /\ IF i = None
             THEN /\ ctxLeft' = 0
                  /\ UNCHANGED <<reads, scanpc>>
             ELSE /\ reads' = Append(reads, <<i, "context">>)
                  /\ IF fileLines[i] = "bad"
                       THEN /\ scanpc' = "panic"
                            /\ UNCHANGED ctxLeft
                       ELSE /\ ctxLeft' = ctxLeft - 1
                            /\ UNCHANGED scanpc
    /\ UNCHANGED <<fileLines, max_errors, after, earlyExit,
                   consecutive_error_count, reported, counted>>
    /\ UNCHANGED notScan

\* report returns: if self.report(..)? { return Ok(true) }, else
\* consecutive_error_count = 0 and the loop goes on; more_lines is dropped
ReportReturn ==
    /\ scanpc = "report"
    /\ ctxLeft = 0
    /\ lines' = SharedIterator_drop(lines)
    /\ IF earlyExit
         THEN /\ scanpc' = "early"
              /\ UNCHANGED consecutive_error_count
         ELSE /\ scanpc' = "scan"
              /\ consecutive_error_count' = 0
    /\ UNCHANGED <<fileLines, max_errors, after, earlyExit, ctxLeft, reads,
                   reported, counted>>
    /\ UNCHANGED notScan

\* the end of the closure that called walk_path on the file: process_file has
\* returned (Ok(false) at the end of the lines or after the budget's break,
\* Ok(true) at an early exit), and ops_complete.fetch_add(1) follows. A panic
\* unwinds through the closure, whose fetch_add is then never reached
ClosureEnd ==
    /\ scanpc \in {"eof", "aborted", "early"}
    /\ counted = 0
    /\ counted' = 1
    /\ UNCHANGED <<fileLines, max_errors, after, earlyExit, lines,
                   consecutive_error_count, scanpc, ctxLeft, reads, reported>>
    /\ UNCHANGED notScan

ScanNext ==
    \/ ScanLine
    \/ ReportPull
    \/ ReportReturn
    \/ ClosureEnd

ScanSpec == ScanInit /\ [][ScanNext]_vars

\* the thread that scans the file keeps running
FairScanSpec == ScanSpec /\ WF_vars(ScanNext)

(***************************************************************************)
(* The tree walker on one path: walk_path, walk_zip, search_file,          *)
(* grep_file and report (src/src/main.rs)                                  *)
(*                                                                         *)
(* A path or an output record is a sequence of tokens: "d" a directory     *)
(* prefix "dir/", "a" a name the filename filter does not match, "t" a     *)
(* name it matches, "z" the suffix ".zip", "!" and "#" delimiter strings,  *)
(* ":" Args::delimiter, "L" a matching line.                               *)
(***************************************************************************)
\* path_str.ends_with(".zip") / file_name.ends_with(".zip")
EndsWithZip(path) == Len(path) > 0 /\ path[Len(path)] = "z"

\* self.file_regex.is_match(path), the pattern being the literal of token "t":
\* Regex::is_match searches the whole text
FileRegexMatch(path) == \E i \in 1..Len(path) : path[i] = "t"

\* file.split(&self.args.zip_delimiter).next().unwrap_or(file): the text before
\* the first occurrence of the delimiter, all of it when there is none
RECURSIVE SplitFirst(_, _)
SplitFirst(file, delim) ==
    IF file = <<>> \/ Head(file) = delim THEN <<>>
    ELSE <<Head(file)>> \o SplitFirst(Tail(file), delim)

\* report: the record written to stdout
ReportRecord(file, line) ==
    IF args.no_file THEN <<line>>
    ELSE IF args.file_only
         THEN IF args.zip_only THEN SplitFirst(file, args.zip_delimiter) ELSE file
    ELSE file \o <<":", line>>

\* report: Ok(self.args.file_only || self.args.zip_only)
ReportStop == args.file_only \/ args.zip_only

\* grep_file on a file with `left` matching lines to come (every line decodes):
\* the records written; `self.report(path, &line)?` returning true ends the scan
RECURSIVE GrepFile(_, _)
GrepFile(path, left) ==
    IF left = 0 THEN <<>>
    ELSE IF ReportStop THEN <<ReportRecord(path, "L")>>
    ELSE <<ReportRecord(path, "L")>> \o GrepFile(path, left - 1)

\* search_file: grep_file when the filename filter matches the path, else the
\* notice when verbose; grep_file's bool is dropped
SearchFile(path, matches) ==
    IF FileRegexMatch(path)
    THEN [out |-> GrepFile(path, matches), diag |-> <<>>, calls |-> <<path>>]
    ELSE [out |-> <<>>,
          diag |-> IF args.verbose THEN <<<<"INFO: skipping", path>>>> ELSE <<>>,
          calls |-> <<>>]

\* what an archive may hold: a directory placeholder, a file the filter does
\* not match, files it matches, an archive, an entry that cannot be read
ZipEntries ==
    {[name |-> <<"d">>, is_dir |-> TRUE, matches |-> 0, readable |-> TRUE],
     [name |-> <<"a">>, is_dir |-> FALSE, matches |-> 1, readable |-> TRUE],
     [name |-> <<"t", "z">>, is_dir |-> FALSE, matches |-> 0, readable |-> TRUE],
     [name |-> <<"t">>, is_dir |-> FALSE, matches |-> 0, readable |-> FALSE]}
    \cup {[name |-> <<"t">>, is_dir |-> FALSE, matches |-> m, readable |-> TRUE] :
            m \in 0..MaxMatches}

\* what an archive that is an entry of an archive holds: one file the filter
\* matches, with one matching line
NestedEntryName == <<"t">>

UnitPaths == {<<"d", "a">>, <<"d", "t">>, <<"d", "a", "z">>, <<"d", "t", "z">>}

\* what walk_path may be called on: a path, what the filesystem holds there
\* (fs), whether it can be opened and read, and its lines or entries. Only an
\* archive that opens has entries, only a plain file that opens has lines.
Units ==
    LET Unit(o, p, f, op, m, es) ==
            [origin |-> o, path |-> p, fs |-> f, opens |-> op, matches |-> m,
             entries |-> es]
    IN UNION {
        {Unit(o, p, f, FALSE, 0, <<>>) : f \in {"dir", "file", "other"}}
        \cup {Unit(o, p, f, TRUE, 0, <<>>) : f \in {"dir", "other"}}
        \cup (IF EndsWithZip(p)
                THEN {Unit(o, p, "file", TRUE, 0, es) :
                        es \in SeqsUpTo(ZipEntries, MaxEntries)}
                ELSE {Unit(o, p, "file", TRUE, m, <<>>) : m \in 0..MaxMatches})
        : o \in {"root", "walk_dir"}, p \in UnitPaths}

\* walk_path is called by run on a root, or by walk_dir's closure on an entry
WalkInit ==
    /\ args \in [no_file : BOOLEAN, file_only : BOOLEAN, zip_only : BOOLEAN,
                 verbose : BOOLEAN, quiet : BOOLEAN, zip_delimiter : {"!", "#"}]
    /\ unit \in Units
    /\ walkpc = "start"
    /\ zipIdx = 0
    /\ out = <<>>
    /\ diag = <<>>
    /\ engineCalls = <<>>
    /\ SchedIdle /\ ScanIdle /\ IterIdle /\ CapIdle

\* walk_path: is_dir -> walk_dir (its loop is the scheduler's part);
\* ends_with(".zip") -> File::open(path)? and walk_zip up to its loop;
\* is_file -> grep_file(path_str, &File::open(path)?)?; else the notice
WalkPath ==
    /\ walkpc = "start"
    /\ IF unit.fs = "dir"
         THEN /\ walkpc' = IF unit.opens THEN "done" ELSE "err"
              /\ UNCHANGED <<out, diag, engineCalls>>
         ELSE IF EndsWithZip(unit.path)
         THEN /\ walkpc' = IF ~unit.opens \/ unit.fs # "file" THEN "err"
                           ELSE IF unit.entries = <<>> THEN "done" ELSE "zip"
              /\ UNCHANGED <<out, diag, engineCalls>>
         ELSE IF unit.fs = "file"
         THEN IF unit.opens
              THEN /\ walkpc' = "done"
                   /\ out' = out \o GrepFile(unit.path, unit.matches)
                   /\ engineCalls' = Append(engineCalls, unit.path)
                   /\ UNCHANGED diag
              ELSE /\ walkpc' = "err"
                   /\ UNCHANGED <<out, diag, engineCalls>>
         ELSE /\ walkpc' = "done"
              /\ diag' = IF args.verbose
                           THEN Append(diag, <<"INFO: skipping non-file", unit.path>>)
                           ELSE diag
              /\ UNCHANGED <<out, engineCalls>>
    /\ UNCHANGED <<args, unit, zipIdx>>
    /\ UNCHANGED notWalk

\* one turn of walk_zip's loop: archive.by_index(i)?; a directory placeholder
\* is passed over; file_name = path + "!" + name; an archive gets the notice,
\* any other entry goes to search_file
WalkZipEntry ==
    /\ walkpc = "zip"
    /\ LET zip_file == unit.entries[zipIdx + 1]
           file_name == unit.path \o <<"!">> \o zip_file.name
           found == IF zip_file.is_dir
                      THEN [out |-> <<>>, diag |-> <<>>, calls |-> <<>>]
                    ELSE IF EndsWithZip(file_name)
                      THEN [out |-> <<>>,
                            diag |-> <<<<"No support for a zip of a zip yet", file_name>>>>,
                            calls |-> <<>>]
                    ELSE SearchFile(file_name, zip_file.matches)
       IN
        IF ~zip_file.readable
        THEN /\ walkpc' = "err"
             /\ UNCHANGED <<zipIdx, out, diag, engineCalls>>
        ELSE /\ out' = out \o found.out
             /\ diag' = diag \o found.diag
             /\ engineCalls' = engineCalls \o found.calls
             /\ zipIdx' = zipIdx + 1
             /\ walkpc' = IF zipIdx + 1 = Len(unit.entries) THEN "done" ELSE "zip"
    /\ UNCHANGED <<args, unit>>
    /\ UNCHANGED notWalk

WalkNext ==
    \/ WalkPath
    \/ WalkZipEntry

WalkSpec == WalkInit /\ [][WalkNext]_vars

\* an entry with entries of its own is a directory
HasEntries(p, n) == \E c \in Nodes : p[c] = n

(***************************************************************************)
(* Scheduler: ZipDirAnalyzer::run, walk_path, walk_dir                     *)
(***************************************************************************)
\* ZipDirAnalyzer { ops_scheduled: Default::default(), ops_complete: ... } and the
\* arguments of the run
SchedInit ==
    /\ parent \in Forests
    /\ kind \in [Nodes -> {"dir", "file"}]
    /\ \A n \in Nodes : HasEntries(parent, n) => kind[n] = "dir"
    /\ fault \in [Nodes -> {"none", "open", "entry"}]
    /\ Cardinality({n \in Nodes : fault[n] # "none"}) <= MaxFaults
    /\ stdinMode \in BOOLEAN
    \* a directory argument names one root, and no stdin line is read for it
    /\ ~stdinMode => /\ Cardinality({n \in Nodes : parent[n] = 0}) = 1
                     /\ \A n \in Nodes : parent[n] = 0 => fault[n] # "entry"
    /\ ops_scheduled = 0
    /\ ops_complete = 0
    /\ pool = <<>>
    /\ tpc = [t \in Threads |-> "idle"]
    /\ tnode = [t \in Threads |-> 0]
    /\ tchild = [t \in Threads |-> 0]
    /\ tres = [t \in Threads |-> "ok"]
    /\ mainpc = "roots"
    /\ rootn = 0
    /\ scheduled = 1
    /\ complete = 0
    /\ runs = [n \in Nodes |-> 0]
    /\ completions = [n \in Nodes |-> 0]
    /\ ScanIdle /\ IterIdle /\ WalkIdle /\ CapIdle

\* the process lives until run returns to main, which returns in turn
Running == mainpc \notin {"done", "failed"}

\* walk_path(path) up to the point where it returns or walk_dir's loop starts:
\* "err" (read_dir or File::open failed), "ok" (a file was searched, or the
\* directory is empty), "loop" (walk_dir has entries to go through)
WalkPathEntry(n) ==
    IF fault[n] = "open" THEN "err"
    ELSE IF kind[n] = "dir" /\ NextEntry(n, 0) # 0 THEN "loop"
    ELSE "ok"

\* run: the next root (the one argument, or the next line of stdin) is handed
\* to walk_path on the main thread; `?` returns the error of either
RunNextRoot ==
    /\ mainpc = "roots"
    /\ LET r == NextEntry(0, rootn) IN
        /\ r # 0
        /\ rootn' = r
        /\ IF fault[r] = "entry" \/ WalkPathEntry(r) = "err"
             THEN /\ mainpc' = "failed"
                  /\ UNCHANGED <<tpc, tnode, tchild>>
             ELSE IF WalkPathEntry(r) = "loop"
             THEN /\ mainpc' = "walking"
                  /\ tpc' = [tpc EXCEPT ![MainThread] = "incr"]
                  /\ tnode' = [tnode EXCEPT ![MainThread] = r]
                  /\ tchild' = [tchild EXCEPT ![MainThread] = NextEntry(r, 0)]
             ELSE /\ mainpc' = "roots"
                  /\ UNCHANGED <<tpc, tnode, tchild>>
    /\ UNCHANGED notSched
    /\ UNCHANGED <<parent, kind, fault, stdinMode, ops_scheduled, ops_complete,
                   pool, tres, scheduled, complete, runs, completions>>

\* run: every root is walked; let mut scheduled = 1; let mut complete = 0;
\* and the first test of `while scheduled > complete`
RunEnterWait ==
    /\ mainpc = "roots"
    /\ NextEntry(0, rootn) = 0
    /\ scheduled' = 1
    /\ complete' = 0
    /\ mainpc' = "load_scheduled"
    /\ UNCHANGED notSched
    /\ UNCHANGED <<parent, kind, fault, stdinMode, ops_scheduled, ops_complete,
                   pool, tpc, tnode, tchild, tres, rootn, runs, completions>>

\* run: scheduled = ops_scheduled.load(Relaxed)
RunLoadScheduled ==
    /\ mainpc = "load_scheduled"
    /\ scheduled' = ops_scheduled
    /\ mainpc' = "load_complete"
    /\ UNCHANGED notSched
    /\ UNCHANGED <<parent, kind, fault, stdinMode, ops_scheduled, ops_complete,
                   pool, tpc, tnode, tchild, tres, rootn, complete, runs,
                   completions>>

\* run: complete = ops_complete.load(Relaxed); the progress bar; the sleep; and
\* the next test of `while scheduled > complete`
RunLoadComplete ==
    /\ mainpc = "load_complete"
    /\ complete' = ops_complete
    /\ mainpc' = IF scheduled > ops_complete THEN "load_scheduled" ELSE "done"
    /\ UNCHANGED notSched
    /\ UNCHANGED <<parent, kind, fault, stdinMode, ops_scheduled, ops_complete,
                   pool, tpc, tnode, tchild, tres, rootn, scheduled, runs,
                   completions>>

\* a variant of the loop body's first statement without the fetch_add
WalkDirIncr_no_count(t) ==
    /\ Running
    /\ tpc[t] = "incr"
    /\ tpc' = [tpc EXCEPT ![t] = "submit"]
    /\ UNCHANGED notSched
    /\ UNCHANGED <<parent, kind, fault, stdinMode, ops_scheduled, ops_complete,
                   pool, tnode, tchild, tres, mainpc, rootn, scheduled, complete,
                   runs, completions>>

\* walk_dir's loop body, first statement: ops_scheduled.fetch_add(1, Relaxed)
WalkDirIncr(t) ==
    /\ Running
    /\ tpc[t] = "incr"
    /\ ops_scheduled' = ops_scheduled + 1
    /\ tpc' = [tpc EXCEPT ![t] = "submit"]
    /\ UNCHANGED notSched
    /\ UNCHANGED <<parent, kind, fault, stdinMode, ops_complete, pool, tnode,
                   tchild, tres, mainpc, rootn, scheduled, complete, runs,
                   completions>>

\* where a thread goes when its walk_dir returns `res`: the main thread back to
\* run (whose `?` returns an error), a worker to the end of its closure
AfterWalkDir(t, res) ==
    IF t = MainThread
    THEN /\ tpc' = [tpc EXCEPT ![t] = "idle"]
         /\ mainpc' = IF res = "err" THEN "failed" ELSE "roots"
         /\ UNCHANGED tres
    ELSE /\ tpc' = [tpc EXCEPT ![t] = "complete"]
         /\ tres' = [tres EXCEPT ![t] = res]
         /\ UNCHANGED mainpc

\* walk_dir's loop body, the rest: let path_buf = entry?.path(); then
\* self.pool.lock().unwrap().execute(closure); then the loop's next turn
WalkDirSubmit(t) ==
    /\ Running
    /\ tpc[t] = "submit"
    /\ LET c == tchild[t] IN
        IF fault[c] = "entry"
        THEN /\ AfterWalkDir(t, "err")
             /\ UNCHANGED <<pool, tchild>>
        ELSE /\ pool' = Append(pool, c)
             /\ tchild' = [tchild EXCEPT ![t] = NextEntry(tnode[t], c)]
             /\ IF NextEntry(tnode[t], c) = 0
                  THEN AfterWalkDir(t, "ok")
                  ELSE /\ tpc' = [tpc EXCEPT ![t] = "incr"]
                       /\ UNCHANGED <<tres, mainpc>>
    /\ UNCHANGED notSched
    /\ UNCHANGED <<parent, kind, fault, stdinMode, ops_scheduled, ops_complete,
                   tnode, rootn, scheduled, complete, runs, completions>>

\* a variant of the closure's start in which the entries found inside a file's
\* unit (an archive's) are counted as operations too
WorkerTake_counts_inline(t) ==
    /\ Running
    /\ tpc[t] = "idle"
    /\ pool # <<>>
    /\ LET n == Head(pool) IN
        /\ pool' = Tail(pool)
        /\ runs' = [runs EXCEPT ![n] = @ + 1]
        /\ tnode' = [tnode EXCEPT ![t] = n]
        /\ IF WalkPathEntry(n) = "loop"
             THEN /\ tpc' = [tpc EXCEPT ![t] = "incr"]
                  /\ tchild' = [tchild EXCEPT ![t] = NextEntry(n, 0)]
                  /\ UNCHANGED <<tres, ops_scheduled, ops_complete>>
             ELSE /\ tpc' = [tpc EXCEPT ![t] = "complete"]
                  /\ tres' = [tres EXCEPT ![t] = WalkPathEntry(n)]
                  /\ ops_scheduled' = IF kind[n] = "file" THEN ops_scheduled + 1
                                                         ELSE ops_scheduled
                  /\ ops_complete' = IF kind[n] = "file" THEN ops_complete + 1
                                                        ELSE ops_complete
                  /\ UNCHANGED tchild
    /\ UNCHANGED notSched
    /\ UNCHANGED <<parent, kind, fault, stdinMode,
                   mainpc, rootn, scheduled, complete, completions>>

\* a variant of the closure in which ops_complete.fetch_add comes first and
\* walk_path after it
WorkerTake_complete_first(t) ==
    /\ Running
    /\ tpc[t] = "idle"
    /\ pool # <<>>
    /\ LET n == Head(pool) IN
        /\ pool' = Tail(pool)
        /\ runs' = [runs EXCEPT ![n] = @ + 1]
        /\ tnode' = [tnode EXCEPT ![t] = n]
        /\ ops_complete' = ops_complete + 1
        /\ completions' = [completions EXCEPT ![n] = @ + 1]
        /\ IF WalkPathEntry(n) = "loop"
             THEN /\ tpc' = [tpc EXCEPT ![t] = "incr"]
                  /\ tchild' = [tchild EXCEPT ![t] = NextEntry(n, 0)]
                  /\ UNCHANGED tres
             ELSE /\ tpc' = [tpc EXCEPT ![t] = "idle"]
                  /\ tres' = [tres EXCEPT ![t] = WalkPathEntry(n)]
                  /\ UNCHANGED tchild
    /\ UNCHANGED notSched
    /\ UNCHANGED <<parent, kind, fault, stdinMode, ops_scheduled,
                   mainpc, rootn, scheduled, complete>>

\* a worker of the pool takes the oldest job and runs its closure up to
\* walk_path's return or walk_dir's loop
WorkerTake(t) ==
    /\ Running
    /\ tpc[t] = "idle"
    /\ pool # <<>>
    /\ LET n == Head(pool) IN
        /\ pool' = Tail(pool)
        /\ runs' = [runs EXCEPT ![n] = @ + 1]
        /\ tnode' = [tnode EXCEPT ![t] = n]
        /\ IF WalkPathEntry(n) = "loop"
             THEN /\ tpc' = [tpc EXCEPT ![t] = "incr"]
                  /\ tchild' = [tchild EXCEPT ![t] = NextEntry(n, 0)]
                  /\ UNCHANGED tres
             ELSE /\ tpc' = [tpc EXCEPT ![t] = "complete"]
                  /\ tres' = [tres EXCEPT ![t] = WalkPathEntry(n)]
                  /\ UNCHANGED tchild
    /\ UNCHANGED notSched
    /\ UNCHANGED <<parent, kind, fault, stdinMode, ops_scheduled, ops_complete,
                   mainpc, rootn, scheduled, complete, completions>>

\* a variant of the closure's end that counts a unit complete only when its
\* walk_path returned Ok
WorkerComplete_ok_only(t) ==
    /\ Running
    /\ tpc[t] = "complete"
    /\ ops_complete' = IF tres[t] = "ok" THEN ops_complete + 1 ELSE ops_complete
    /\ completions' = IF tres[t] = "ok"
                        THEN [completions EXCEPT ![tnode[t]] = @ + 1]
                        ELSE completions
    /\ tpc' = [tpc EXCEPT ![t] = "idle"]
    /\ UNCHANGED notSched
    /\ UNCHANGED <<parent, kind, fault, stdinMode, ops_scheduled, pool, tnode,
                   tchild, tres, mainpc, rootn, scheduled, complete, runs>>

\* the closure's end: the warning when result.is_err() && !quiet, then
\* self_clone.ops_complete.fetch_add(1, Relaxed)
WorkerComplete(t) ==
    /\ Running
    /\ tpc[t] = "complete"
    /\ ops_complete' = ops_complete + 1
    /\ completions' = [completions EXCEPT ![tnode[t]] = @ + 1]
    /\ tpc' = [tpc EXCEPT ![t] = "idle"]
    /\ UNCHANGED notSched
    /\ UNCHANGED <<parent, kind, fault, stdinMode, ops_scheduled, pool, tnode,
                   tchild, tres, mainpc, rootn, scheduled, complete, runs>>

SchedNext ==
    \/ RunNextRoot
    \/ RunEnterWait
    \/ RunLoadScheduled
    \/ RunLoadComplete
    \/ \E t \in Threads : WalkDirIncr(t)
    \/ \E t \in Threads : WalkDirSubmit(t)
    \/ \E t \in Workers : WorkerTake(t)
    \/ \E t \in Workers : WorkerComplete(t)

Spec == SchedInit /\ [][SchedNext]_vars

\* the threads are scheduled fairly: run's own steps, and each worker's
FairSpec ==
    /\ Spec
    /\ WF_vars(RunNextRoot \/ RunEnterWait \/ RunLoadScheduled \/ RunLoadComplete
               \/ WalkDirIncr(MainThread) \/ WalkDirSubmit(MainThread))
    /\ \A t \in Workers :
         WF_vars(WorkerTake(t) \/ WalkDirIncr(t) \/ WalkDirSubmit(t)
                 \/ WorkerComplete(t))

(***************************************************************************)
(* process_file in capture mode: the value built from the capture groups   *)
(***************************************************************************)
\* Option<Match>: a group that took part in the match, with its text (a
\* sequence of characters, possibly empty), or one that did not
SomeMatch(text) == [some |-> TRUE, text |-> text]
NoMatch == [some |-> FALSE, text |-> <<>>]

\* the texts a group may match
GroupTexts == {<<>>, <<"x">>, <<"y">>}

\* Args::capture_delimiter
capture_delimiter == <<",">>

\* Vec<String>::join(capture_delimiter)
RECURSIVE Join(_, _)
Join(strings, delim) ==
    IF strings = <<>> THEN <<>>
    ELSE IF Len(strings) = 1 THEN strings[1]
    ELSE strings[1] \o delim \o Join(Tail(strings), delim)

\* caps.iter().flat_map(|c| c.into_iter()).map(|c| c.as_str().to_string())
\* .collect(): the texts of the groups that took part, in order; an Option
\* iterates over nothing when it is None
RECURSIVE FlattenCaps(_)
FlattenCaps(cs) ==
    IF cs = <<>> THEN <<>>
    ELSE (IF Head(cs).some THEN <<Head(cs).text>> ELSE <<>>)
         \o FlattenCaps(Tail(cs))

\* capture_groups.iter().map(|i| caps.get(*i).unwrap_or(&"".to_string()))
\* over the flattened list (indices from 0), when the selection is not empty
SelectCaps(flat, groups) ==
    IF groups = <<>> THEN flat
    ELSE [k \in 1..Len(groups) |->
            IF groups[k] + 1 <= Len(flat) THEN flat[groups[k] + 1] ELSE <<>>]

\* the text process_file hands to report for a matching line
CaptureValue(cs, groups) ==
    Join(SelectCaps(FlattenCaps(cs), groups), capture_delimiter)

\* a line and a pattern with up to MaxGroups groups: no match, or group 0
\* with its text and each further group taking part or not
CapInit ==
    /\ caps \in {<<>>} \cup
          UNION {{<<SomeMatch(w)>> \o gs :
                    w \in GroupTexts,
                    gs \in [1..n -> {NoMatch} \cup {SomeMatch(x) : x \in GroupTexts}]}
                 : n \in 0..MaxGroups}
    /\ capture_groups \in SeqsUpTo(0..(MaxGroups + 1), MaxSelect)
    /\ capValue = <<>>
    /\ cappc = "line"
    /\ SchedIdle /\ ScanIdle /\ IterIdle /\ WalkIdle

\* if let Some(caps) = regex.captures(&line): the value is built and reported
CaptureReport ==
    /\ cappc = "line"
    /\ caps # <<>>
    /\ capValue' = CaptureValue(caps, capture_groups)
    /\ cappc' = "reported"
    /\ UNCHANGED <<caps, capture_groups>>
    /\ UNCHANGED notCap

\* regex.captures(&line) is None: the line is passed over
CaptureNoMatch ==
    /\ cappc = "line"
    /\ caps = <<>>
    /\ cappc' = "no_match"
    /\ UNCHANGED <<caps, capture_groups, capValue>>
    /\ UNCHANGED notCap

CapNext ==
    \/ CaptureReport
    \/ CaptureNoMatch

CapSpec == CapInit /\ [][CapNext]_vars

(***************************************************************************)
(* Properties                                                              *)
(***************************************************************************)
\* a unit is queued in the pool or executing on a worker
UnitsOutstanding == pool # <<>> \/ \E t \in Workers : tpc[t] # "idle"

\* C1: run leaves its wait loop only when no unit submitted by walk_dir is
\* still queued in the pool or executing on a worker.
C1_QuiescenceSafety == mainpc = "done" => ~UnitsOutstanding

\* C2: under fair scheduling, once run is in its wait loop it eventually
\* leaves it, whatever fails in the tree.
C2_QuiescenceLiveness == (mainpc = "load_scheduled") ~> (mainpc = "done")

\* the file is n lines that fail to decode, followed by one matching line
BadsThenMatch(n) ==
    /\ Len(fileLines) = n + 1
    /\ \A i \in 1..n : fileLines[i] = "bad"
    /\ fileLines[n + 1] = "match"

ScanEnded == scanpc \in {"eof", "aborted", "early", "panic"}

WasReported(i) == \E j \in 1..Len(reported) : reported[j] = i

\* C3: after max_errors + 1 consecutive decode failures the matching line that
\* follows is never reported; after exactly max_errors of them it is.
C3_ErrorBudgetThreshold ==
    /\ BadsThenMatch(max_errors + 1) => ~WasReported(max_errors + 2)
    /\ (BadsThenMatch(max_errors) /\ ScanEnded) => WasReported(max_errors + 1)

MatchingLines == {i \in 1..Len(fileLines) : fileLines[i] = "match"}

\* C4: in a mode without early exit, a file whose lines all decode hands each of
\* its M matching lines to report exactly once, wherever they lie and whatever
\* the after-context count (so N such files hand over N*M matches).
C4_MatchCount ==
    (/\ scanpc = "eof"
     /\ ~earlyExit
     /\ \A i \in 1..Len(fileLines) : fileLines[i] # "bad")
    => /\ Len(reported) = Cardinality(MatchingLines)
       /\ \A i \in MatchingLines : WasReported(i)

\* C5: every line is given out at most once, in order, by the loop's handle or
\* by a context handle; a line read as context is never given to the loop
\* afterwards; and when the file is scanned to its end every line was read
\* exactly once.
C5_ExactlyOnceVisit ==
    /\ \A j \in 1..Len(reads) : reads[j][1] = j
    /\ \A j, k \in 1..Len(reads) :
         (j < k /\ reads[j][2] = "context") => reads[k][1] # reads[j][1]
    /\ scanpc = "eof" => Len(reads) = Len(fileLines)

\* a file scanned to its end in which a line read as context was followed by a
\* line read by the loop
C5_Witness ==
    /\ scanpc = "eof"
    /\ \E j, k \in 1..Len(reads) :
         j < k /\ reads[j][2] = "context" /\ reads[k][2] = "primary"

\* C6: whatever handles the calls of next() go to, the i-th call returns the
\* i-th item of the underlying sequence, and every call past its end returns
\* None.
C6_SharedIteratorAliasing ==
    \A i \in 1..Len(returned) :
        returned[i][2] = IF i <= Len(items) THEN items[i] ELSE None

\* the run of tests::basic: [1, 2, 3, 4] read through shared1 and its clone
\* shared2 in turn, then None from both
C6_Witness ==
    /\ items = <<1, 2, 3, 4>>
    /\ returned = <<<<1, 1>>, <<2, 2>>, <<2, 3>>, <<1, 4>>, <<1, None>>, <<2, None>>>>

\* C10: when run returns an error, ops_scheduled is still 0 and no unit has
\* been submitted to the pool.
C10_FatalBeforeScheduling ==
    mainpc = "failed" =>
        /\ ops_scheduled = 0
        /\ pool = <<>>
        /\ \A n \in Nodes : runs[n] = 0

\* C7: a path found during traversal (an entry walk_dir submitted, or an entry
\* of an archive) reaches grep_file only if the filename filter matches it;
\* only the path given as the root is exempt.
C7_FilterScope ==
    \A j \in 1..Len(engineCalls) :
        (unit.origin = "walk_dir" \/ engineCalls[j] # unit.path)
            => FileRegexMatch(engineCalls[j])

\* C8: when an archive found in a directory holds an archive, the entry of the
\* inner one is scanned under dir/outer<delim>inner<delim>entry and, in the
\* whole-record mode, reported under that path.
C8_NestedContainerPath ==
    (walkpc = "done" /\ unit.origin = "walk_dir" /\ args.zip_delimiter = "!") =>
        \A i \in 1..Len(unit.entries) :
            (~unit.entries[i].is_dir /\ EndsWithZip(unit.entries[i].name)) =>
                LET logical == unit.path \o <<args.zip_delimiter>>
                               \o unit.entries[i].name
                               \o <<args.zip_delimiter>> \o NestedEntryName
                IN /\ \E j \in 1..Len(engineCalls) : engineCalls[j] = logical
                   /\ (~args.no_file /\ ~args.file_only) =>
                        \E k \in 1..Len(out) : out[k] = logical \o <<":", "L">>

\* C9: with file_only and zip_only both set, the path of an archive is written
\* to stdout at most once, however many of its entries hold matching lines.
C9_ZipNameOnce ==
    (args.file_only /\ args.zip_only /\ EndsWithZip(unit.path)) =>
        Cardinality({k \in 1..Len(out) : out[k] = unit.path}) <= 1


\* a worker is inside the closure of unit n
Executing(n) == \E t \in Workers : tpc[t] # "idle" /\ tnode[t] = n

Submitted(c) == runs[c] > 0 \/ \E i \in 1..Len(pool) : pool[i] = c

\* the walk_dir call over directory d was entered and has returned: on the
\* main thread for a root, in the closure of d's unit otherwise
WalkDirReturned(d) ==
    /\ kind[d] = "dir"
    /\ fault[d] = "none"
    /\ IF parent[d] = 0
         THEN rootn > d \/ (rootn = d /\ tpc[MainThread] = "idle")
         ELSE completions[d] = 1

\* C12: a failure on one entry of a directory does not keep the other entries
\* of that directory from getting their unit: once walk_dir has returned,
\* every entry that could be read has been handed to the pool
C12_SiblingIsolation ==
    \A d \in Nodes : WalkDirReturned(d) =>
        \A c \in Nodes : (parent[c] = d /\ fault[c] # "entry") => Submitted(c)

\* run reaches root r: no earlier root made run return an error
RootReached(r) ==
    \A q \in Nodes : (parent[q] = 0 /\ q < r) =>
        /\ fault[q] = "none"
        /\ \A c \in Nodes : parent[c] = q => fault[c] # "entry"

\* walk_dir is called on p in some run of the tree: p is a directory that
\* read_dir can open, and walk_path gets to it (as a root, or inside the unit
\* of an entry that was read)
RECURSIVE WalkDirCalled(_)
WalkDirCalled(p) ==
    /\ kind[p] = "dir"
    /\ fault[p] = "none"
    /\ IF parent[p] = 0
         THEN RootReached(p)
         ELSE /\ WalkDirCalled(parent[p])
              /\ \A c \in Nodes : (parent[c] = parent[p] /\ c < p) =>
                                      fault[c] # "entry"

\* the filesystem entries that walk_dir's loops go through over the whole
\* traversal: the entries of every directory walked, up to and including the
\* first one that fails to read
EnumeratedEntries ==
    {c \in Nodes : /\ parent[c] # 0
                   /\ WalkDirCalled(parent[c])
                   /\ \A b \in Nodes : (parent[b] = parent[c] /\ b < c) =>
                                           fault[b] # "entry"}

\* run has walked every root, and no unit is queued or being executed
TraversalOver ==
    /\ mainpc \in {"load_scheduled", "load_complete", "done"}
    /\ pool = <<>>
    /\ \A t \in Workers : tpc[t] = "idle"

\* C13: progress counts filesystem entries only: when the traversal is over,
\* ops_scheduled is the number of entries enumerated by walk_dir; a file's unit
\* (an archive with its entries, processed inline) adds nothing to either
\* counter beyond its own one operation
C13_ProgressCountsEntries ==
    /\ TraversalOver => ops_scheduled = Cardinality(EnumeratedEntries)
    /\ ops_scheduled <= Cardinality(EnumeratedEntries)
    /\ ops_complete <= Cardinality({n \in Nodes : runs[n] > 0})

\* a directory of two files (two archives of any number of entries) has been
\* traversed: two operations
C13_Witness ==
    /\ TraversalOver
    /\ ops_scheduled = 2
    /\ ops_complete = 2
    /\ \E d \in Nodes : Cardinality({c \in Nodes : parent[c] = d /\ kind[c] = "file"
                                                  /\ runs[c] = 1}) = 2

\* C14: with quiet set (and verbose not), no unit emits a warning or a
\* diagnostic of any kind
C14_QuietSilencesDiagnostics == (args.quiet /\ ~args.verbose) => diag = <<>>

\* the text matched by group number i of the Captures, empty when the group
\* did not take part in the match or the pattern has no such group
GroupText(cs, i) == IF i + 1 <= Len(cs) /\ cs[i + 1].some THEN cs[i + 1].text
                    ELSE <<>>

\* C15: in capture mode, for a matching line and a selection list, the value
\* reported is the join with the capture delimiter of, for each selected index
\* i in order, the text matched by group number i, or the empty string when
\* group i did not take part or does not exist
C15_CaptureGroupSelection ==
    (cappc = "reported" /\ capture_groups # <<>>) =>
        capValue = Join([k \in 1..Len(capture_groups) |->
                            GroupText(caps, capture_groups[k])],
                        capture_delimiter)

\* C16: parent after children: a unit's own ops_complete increment comes after
\* every ops_scheduled increment (and submission) it makes for its children:
\* no walk_dir loop is still running for a unit that has counted itself
\* complete, and every entry read by a completed directory unit was submitted
C16_ParentAfterChildren ==
    /\ \A t \in Workers :
          tpc[t] \in {"incr", "submit"} => completions[tnode[t]] = 0
    /\ \A d \in Nodes :
          (completions[d] = 1 /\ kind[d] = "dir" /\ fault[d] = "none") =>
              \A c \in Nodes :
                  (/\ parent[c] = d
                   /\ \A b \in Nodes : (parent[b] = d /\ b <= c) =>
                                           fault[b] # "entry")
                  => Submitted(c)

\* a directory's unit has counted itself complete after it submitted an
\* entry, whose unit is still outstanding
C16_Witness ==
    \E d \in Nodes : /\ completions[d] = 1
                     /\ \E c \in Nodes : parent[c] = d /\ completions[c] = 0
                                         /\ Submitted(c)
                     /\ ops_scheduled > ops_complete

\* C17: in every reachable state ops_complete <= ops_scheduled, and no step
\* makes either counter smaller
C17_CounterInvariant ==
    /\ [](ops_complete <= ops_scheduled)
    /\ [][/\ ops_scheduled' >= ops_scheduled
          /\ ops_complete' >= ops_complete]_vars

\* both counters have moved, and every scheduled operation is complete
C17_Witness == ops_complete = ops_scheduled /\ ops_scheduled = NumNodes - 1

\* the units queued in the pool or executing (not yet past their ops_complete
\* increment)
OutstandingUnits == Len(pool) + Cardinality({t \in Workers : tpc[t] # "idle"})

\* C18: counter conservation: ops_scheduled - ops_complete is the number of
\* units queued or executing, every increment of ops_scheduled being matched
\* by one unit handed to the pool; stated for the states in which run waits
\* in its loop and no walk_dir loop stands between its fetch_add and its
\* execute
C18_CounterConservation ==
    (/\ mainpc \in {"load_scheduled", "load_complete"}
     /\ \A t \in Threads : tpc[t] # "submit") =>
        ops_scheduled - ops_complete = OutstandingUnits

\* C19: report returns true (the scan of the file ends after the first match)
\* exactly when the record it wrote was a path-only record, and false whenever
\* it wrote a whole record (path, delimiter, line), for every combination of
\* no_file, file_only and zip_only; seen on a plain file with two or more
\* matching lines
C19_EarlyExitMatchesOutput ==
    (/\ walkpc = "done"
     /\ unit.fs = "file" /\ unit.opens /\ ~EndsWithZip(unit.path)
     /\ unit.matches >= 2) =>
        LET stopped == Len(out) = 1
            pathOnly == out[1] = unit.path
            whole == out[1] = unit.path \o <<":", "L">>
        IN /\ stopped <=> pathOnly
           /\ whole => ~stopped

\* a line that failed to decode was pulled as after-context of a match
BadContextLine ==
    \E j \in 1..Len(reads) :
        reads[j][2] = "context" /\ fileLines[reads[j][1]] = "bad"

\* C20: a decode or I/O failure on a line pulled as after-context does not
\* abort the unit that scans the file: the unit is still counted complete
\* (its closure increments ops_complete)
C20_ContextFailureCounted == BadContextLine ~> (counted = 1)

\* C21: for every configured container delimiter, the logical path under which
\* walk_zip has an archive's entry scanned is <archive path><delimiter><entry
\* name>, and the path-only record written with zip_only, that logical path
\* cut at the first container delimiter, is exactly the archive's path
C21_ContainerDelimiterConsistency ==
    EndsWithZip(unit.path) =>
        /\ \A j \in 1..Len(engineCalls) :
              \E i \in 1..Len(unit.entries) :
                  engineCalls[j] = unit.path \o <<args.zip_delimiter>>
                                   \o unit.entries[i].name
        /\ (args.file_only /\ args.zip_only /\ ~args.no_file) =>
              \A k \in 1..Len(out) : out[k] = unit.path

====
